---- MODULE Spec2Model ----
(***************************************************************************)
(* Storage Dehogger (src/main.py): the recursive directory walk            *)
(* get_file_tree, the view model FolderTreeViewModel that a DataViewCtrl   *)
(* queries, and the size renderer FileSizeRenderer.                        *)
(*                                                                         *)
(* Python values are modelled as follows.  A str is a sequence of one-     *)
(* character strings.  An optional value (None or x) is a sequence of      *)
(* length at most one: None is << >>, x is <<x>>.  An object reference     *)
(* (a File's identity, a DataViewItem) is the number of the directory      *)
(* entry the object was created for.                                       *)
(***************************************************************************)
EXTENDS Integers, Sequences, FiniteSets, TLC

VARIABLES
    kind,      \* the file system: the kind of every directory entry
    denied,    \* the file system: the entries that raise PermissionError
    stack,     \* the activation records of get_file_tree, innermost last
    tree,      \* AppFrame.__init__'s local `tree` (optional)
    pc,        \* where AppFrame.__init__ / the event loop is
    data,      \* FolderTreeViewModel.data, the list of roots
    last,      \* the last call the toolkit made and what it returned
    value      \* FileSizeRenderer.value (optional)

vars == <<kind, denied, stack, tree, pc, data, last, value>>

None == << >>

Some(x) == <<x>>

(***************************************************************************)
(* Bounds of the model.                                                    *)
(***************************************************************************)
\* At most this many entries of the file system raise PermissionError.
MaxDenied == 2

\* The renderer is driven with the sizes within Spread of every tier boundary.
Spread == 6

(***************************************************************************)
(* Python str and int.                                                     *)
(***************************************************************************)
\* The characters the model uses, in code point order.
Chars ==
    << " ", ".", "0", "1", "2", "3", "4", "5", "6", "7", "8", "9",
       "B", "G", "M", "a", "b", "c", "d", "e", "k", "p", "r", "s",
       "t", "u", "x", "y" >>

Ord(c) == CHOOSE i \in DOMAIN Chars : Chars[i] = c

\* Python's s > t on str: lexicographic by code point, a proper prefix is smaller.
RECURSIVE StrGreater(_, _)
StrGreater(s, t) ==
    IF s = << >> THEN FALSE
    ELSE IF t = << >> THEN TRUE
    ELSE IF Head(s) = Head(t) THEN StrGreater(Tail(s), Tail(t))
    ELSE Ord(Head(s)) > Ord(Head(t))

Digit(d) == << "0", "1", "2", "3", "4", "5", "6", "7", "8", "9" >>[d + 1]

\* str(n) for n >= 0.
RECURSIVE str(_)
str(n) == IF n < 10 THEN <<Digit(n)>> ELSE Append(str(n \div 10), Digit(n % 10))

\* int(s) for a str of decimal digits.
RECURSIVE int(_)
int(s) ==
    IF Len(s) = 0 THEN 0
    ELSE 10 * int(SubSeq(s, 1, Len(s) - 1)) + (Ord(s[Len(s)]) - Ord("0"))

(***************************************************************************)
(* The file system.  Its shape is fixed: three directories' worth of       *)
(* entries, listed in the order os.scandir yields them (not alphabetical). *)
(* What varies is the kind of some entries and which entries are           *)
(* unreadable.                                                             *)
(*                                                                         *)
(*   r/            entry 0, the root path                                  *)
(*     c     10    entry 1                                                 *)
(*     sub/        entry 2                                                 *)
(*       a   10    entry 5                                                 *)
(*       b   10    entry 6   a file, or a symlink to sub (its parent)      *)
(*       deep/     entry 7                                                 *)
(*         x  3    entry 8   a file, or a symlink to r (the root)          *)
(*     a      5    entry 3   a file, or a socket                           *)
(*     b     20    entry 4   a file, or an empty directory                 *)
(***************************************************************************)
Root == 0

Slots == 1 .. 8

RootPath == <<"r">>

ParentDir == << 0, 0, 0, 0, 2, 2, 2, 7 >>

Names ==
    << <<"c">>, <<"s", "u", "b">>, <<"a">>, <<"b">>,
       <<"a">>, <<"b">>, <<"d", "e", "e", "p">>, <<"x">> >>

StSize == << 10, 0, 5, 20, 10, 10, 0, 3 >>

Target == << 0, 0, 0, 0, 0, 2, 0, 0 >>

KindChoices ==
    << {"file"}, {"dir"}, {"file", "other"}, {"file", "dir"},
       {"file"}, {"file", "link"}, {"dir"}, {"file", "link"} >>

\* The entries of directory d, in enumeration order.
Listing(d) ==
    IF d = 0 THEN << 1, 2, 3, 4 >>
    ELSE IF d = 2 THEN << 5, 6, 7 >>
    ELSE IF d = 7 THEN << 8 >>
    ELSE << >>

KindOf(e) == IF e = Root THEN "dir" ELSE kind[e]

\* os.DirEntry.is_file / is_dir: a symbolic link answers for its target only
\* when follow_symlinks is true.
is_file(e, follow_symlinks) ==
    IF KindOf(e) = "link"
    THEN follow_symlinks /\ KindOf(Target[e]) = "file"
    ELSE KindOf(e) = "file"

is_dir(e, follow_symlinks) ==
    IF KindOf(e) = "link"
    THEN follow_symlinks /\ KindOf(Target[e]) = "dir"
    ELSE KindOf(e) = "dir"

\* The directory that os.scandir(entry.path) lists.
Resolve(e) == IF KindOf(e) = "link" THEN Target[e] ELSE e

(***************************************************************************)
(* Node model: File and Folder.  A File has no `children` attribute.       *)
(***************************************************************************)
File(id, parent, path, size) ==
    [kind |-> "File", id |-> id, parent |-> parent, path |-> path, size |-> size]

Folder(id, parent, path, size, children) ==
    [kind |-> "Folder", id |-> id, parent |-> parent, path |-> path,
     size |-> size, children |-> children]

(***************************************************************************)
(* get_file_tree, one activation record per call.                          *)
(***************************************************************************)
\* A fresh activation: total = 0, files = [], os.scandir not yet called.
Frame(name, root, entry, parent) ==
    [name |-> name, root |-> root, entry |-> entry, parent |-> parent,
     total |-> 0, files |-> << >>, open |-> FALSE, i |-> 1]

Top == stack[Len(stack)]

Below == SubSeq(stack, 1, Len(stack) - 1)

SetTop(stk, fr) == [stk EXCEPT ![Len(stk)] = fr]

\* The entry the loop of the innermost call is at.
Cur == Listing(Top.root)[Top.i]

InLoop ==
    /\ pc = "building"
    /\ Top.open
    /\ Top.i <= Len(Listing(Top.root))

EntryIsFile(e) == is_file(e, FALSE)

EntryIsDirFollow(e) == is_dir(e, TRUE)

EntryIsDir(e) == is_dir(e, FALSE)

\* is_file()/stat() of the entry raises PermissionError.
StatDenied(e) == e \in denied /\ ~EntryIsDir(e)

\* `except PermissionError: continue`, with the variant that leaves the loop.
ExceptBreak(fr) == [fr EXCEPT !.i = Len(Listing(fr.root)) + 1]

ExceptContinue(fr) == [fr EXCEPT !.i = @ + 1]

\* An entry that is neither a file nor a directory: the loop moves on.
NextEntry(fr) == [fr EXCEPT !.i = @ + 1]

\* size = entry.stat().st_size; total += size; files.append(File(...))
AddFile(fr, e) ==
    [fr EXCEPT !.total = @ + StSize[e],
               !.files = Append(@, File(e, fr.parent, Names[e], StSize[e])),
               !.i = @ + 1]

AddFolderNoTotal(fr, folder) ==
    [fr EXCEPT !.files = Append(@, folder), !.i = @ + 1]

\* folder = get_file_tree(...); total += folder.size; files.append(folder)
AddFolder(fr, folder) ==
    [fr EXCEPT !.total = @ + folder.size,
               !.files = Append(@, folder),
               !.i = @ + 1]

\* The recursive call: same parent reference passed through.
Recurse(fr, e) == Frame(Names[e], Resolve(e), e, fr.parent)

\* return Folder(parent, name, total, files)
Result(fr) == Folder(fr.entry, fr.parent, fr.name, fr.total, fr.files)

\* AppFrame.__init__: tree = get_file_tree(root_path, root_path, None)
Start ==
    /\ pc = "start"
    /\ stack' = << Frame(RootPath, Root, Root, None) >>
    /\ pc' = "building"
    /\ UNCHANGED <<kind, denied, tree, data, last, value>>

\* with os.scandir(root) as it: the directory can be listed.
ScandirOpen ==
    /\ pc = "building"
    /\ ~Top.open
    /\ Top.root \notin denied
    /\ stack' = SetTop(stack, [Top EXCEPT !.open = TRUE])
    /\ UNCHANGED <<kind, denied, tree, pc, data, last, value>>

\* os.scandir(root) raises PermissionError, outside the try: the call is left.
\* In the caller the recursive call sits inside the try, so the caller's
\* except clause runs; with no caller the error leaves get_file_tree.
ScandirRaise ==
    /\ pc = "building"
    /\ ~Top.open
    /\ Top.root \in denied
    /\ IF Len(stack) = 1
       THEN /\ stack' = << >>
            /\ pc' = "raised"
       ELSE /\ stack' = SetTop(Below, ExceptContinue(Below[Len(Below)]))
            /\ pc' = pc
    /\ UNCHANGED <<kind, denied, tree, data, last, value>>

\* is_file() or stat() raises PermissionError inside the try.
EntryRaise ==
    /\ InLoop
    /\ StatDenied(Cur)
    /\ stack' = SetTop(stack, ExceptContinue(Top))
    /\ UNCHANGED <<kind, denied, tree, pc, data, last, value>>

EntryFile ==
    /\ InLoop
    /\ ~StatDenied(Cur)
    /\ EntryIsFile(Cur)
    /\ stack' = SetTop(stack, AddFile(Top, Cur))
    /\ UNCHANGED <<kind, denied, tree, pc, data, last, value>>

EntryDir ==
    /\ InLoop
    /\ ~StatDenied(Cur)
    /\ ~EntryIsFile(Cur)
    /\ EntryIsDir(Cur)
    /\ stack' = Append(stack, Recurse(Top, Cur))
    /\ UNCHANGED <<kind, denied, tree, pc, data, last, value>>

EntrySkip ==
    /\ InLoop
    /\ ~StatDenied(Cur)
    /\ ~EntryIsFile(Cur)
    /\ ~EntryIsDir(Cur)
    /\ stack' = SetTop(stack, NextEntry(Top))
    /\ UNCHANGED <<kind, denied, tree, pc, data, last, value>>

\* The loop is over: the Folder is returned, to the caller's loop or to AppFrame.
Return ==
    /\ pc = "building"
    /\ Top.open
    /\ Top.i > Len(Listing(Top.root))
    /\ IF Len(stack) = 1
       THEN /\ stack' = << >>
            /\ tree' = Some(Result(Top))
            /\ pc' = "built"
       ELSE /\ stack' = SetTop(Below, AddFolder(Below[Len(Below)], Result(Top)))
            /\ UNCHANGED <<tree, pc>>
    /\ UNCHANGED <<kind, denied, data, last, value>>

\* self.model = FolderTreeViewModel([tree])
CreateModel ==
    /\ pc = "built"
    /\ data' = tree
    /\ pc' = "shown"
    /\ UNCHANGED <<kind, denied, stack, tree, last, value>>

Build ==
    \/ Start
    \/ ScandirOpen
    \/ ScandirRaise
    \/ EntryRaise
    \/ EntryFile
    \/ EntryDir
    \/ EntrySkip
    \/ Return
    \/ CreateModel

InitFs ==
    /\ kind \in [Slots -> {"file", "dir", "link", "other"}]
    /\ \A e \in Slots : kind[e] \in KindChoices[e]
    /\ denied \in {S \in SUBSET ({Root} \cup Slots) : Cardinality(S) <= MaxDenied}

Init ==
    /\ InitFs
    /\ stack = << >>
    /\ tree = None
    /\ pc = "start"
    /\ data = << >>
    /\ last = [op |-> "none"]
    /\ value = None

(***************************************************************************)
(* FolderTreeViewModel.  A DataViewItem is an optional object reference;   *)
(* the null item is None.                                                  *)
(***************************************************************************)
NullDataViewItem == None

\* The objects reachable from a node.
RECURSIVE Descend(_)
Descend(n) ==
    {n} \cup
    IF n.kind = "Folder"
    THEN UNION {Descend(n.children[k]) : k \in DOMAIN n.children}
    ELSE {}

Objects == UNION {Descend(data[k]) : k \in DOMAIN data}

ObjectToItem(file) == Some(file.id)

ItemToObject(item) == CHOOSE n \in Objects : n.id = item[1]

Returned(v) == [exc |-> "", ret |-> v]

Raised(e) == [exc |-> e]

\* The comparator without the equal-size fallback to the name.
CompareNoTieBreak(item1, item2, column, ascending) ==
    LET file1 == ItemToObject(item1)
        file2 == ItemToObject(item2)
    IN  IF column = 0
        THEN IF ascending = StrGreater(file1.path, file2.path) THEN 1 ELSE -1
        ELSE IF ascending = (file1.size > file2.size) THEN 1 ELSE -1

Compare(item1, item2, column, ascending) ==
    LET file1 == ItemToObject(item1)
        file2 == ItemToObject(item2)
    IN  IF column = 0 \/ file1.size = file2.size
        THEN IF ascending = StrGreater(file1.path, file2.path) THEN 1 ELSE -1
        ELSE IF ascending = (file1.size > file2.size) THEN 1 ELSE -1

ItemsOf(nodes) == [k \in DOMAIN nodes |-> ObjectToItem(nodes[k])]

\* Returns len(data) and fills `children`; a File has no attribute `children`.
GetChildren(parent) ==
    IF parent = NullDataViewItem
    THEN [exc |-> "", ret |-> Len(data), children |-> ItemsOf(data)]
    ELSE LET node == ItemToObject(parent)
         IN  IF node.kind = "Folder"
             THEN [exc |-> "", ret |-> Len(node.children),
                   children |-> ItemsOf(node.children)]
             ELSE Raised("AttributeError")

IsContainer(item) ==
    IF item = NullDataViewItem THEN TRUE
    ELSE ItemToObject(item).kind = "Folder"

GetParent(item) ==
    IF item = NullDataViewItem THEN NullDataViewItem
    ELSE ItemToObject(item).parent

GetValue(item, col) ==
    LET node == ItemToObject(item)
    IN  IF col = 0 THEN node.path ELSE str(node.size)

\* True, with the attribute set to bold blue, for a Folder.
GetAttr(item, col) ==
    IF ItemToObject(item).kind = "Folder"
    THEN [exc |-> "", ret |-> TRUE, colour |-> "blue", bold |-> TRUE]
    ELSE [exc |-> "", ret |-> FALSE]

RECURSIVE Renamed(_, _, _)
Renamed(n, id, text) ==
    LET m == IF n.id = id THEN [n EXCEPT !.path = text] ELSE n
    IN  IF m.kind = "Folder"
        THEN [m EXCEPT !.children = [k \in DOMAIN @ |-> Renamed(@[k], id, text)]]
        ELSE m

\* A SetValue that stores the edited name in the node.
SetValueRenames(text, item, col) ==
    IF col = 0
    THEN [k \in DOMAIN data |-> Renamed(data[k], item[1], text)]
    ELSE data

\* What SetValue leaves in self.data: it only returns True.
SetValueData(text, item, col) == data

Items == {ObjectToItem(n) : n \in Objects}

\* The lists a sort of the control orders: the roots, and each Folder's children.
SiblingLists ==
    {data} \cup {n.children : n \in {m \in Objects : m.kind = "Folder"}}

Called(op, args, out) == [op |-> op, args |-> args, out |-> out]

DoCompare ==
    /\ pc = "shown"
    /\ \E l \in SiblingLists : \E j, k \in DOMAIN l :
       \E column \in {0, 1} : \E ascending \in BOOLEAN :
          LET item1 == ObjectToItem(l[j])
              item2 == ObjectToItem(l[k])
          IN  last' = Called("Compare", <<item1, item2, column, ascending>>,
                             Returned(Compare(item1, item2, column, ascending)))
    /\ pc' = "called"
    /\ UNCHANGED <<kind, denied, stack, tree, data, value>>

DoGetChildren ==
    /\ pc = "shown"
    /\ \E parent \in Items \cup {NullDataViewItem} :
          last' = Called("GetChildren", <<parent>>, GetChildren(parent))
    /\ pc' = "called"
    /\ UNCHANGED <<kind, denied, stack, tree, data, value>>

DoIsContainer ==
    /\ pc = "shown"
    /\ \E item \in Items \cup {NullDataViewItem} :
          last' = Called("IsContainer", <<item>>, Returned(IsContainer(item)))
    /\ pc' = "called"
    /\ UNCHANGED <<kind, denied, stack, tree, data, value>>

DoGetParent ==
    /\ pc = "shown"
    /\ \E item \in Items \cup {NullDataViewItem} :
          last' = Called("GetParent", <<item>>, Returned(GetParent(item)))
    /\ pc' = "called"
    /\ UNCHANGED <<kind, denied, stack, tree, data, value>>

DoGetValue ==
    /\ pc = "shown"
    /\ \E item \in Items : \E col \in {0, 1} :
          last' = Called("GetValue", <<item, col>>, Returned(GetValue(item, col)))
    /\ pc' = "called"
    /\ UNCHANGED <<kind, denied, stack, tree, data, value>>

DoGetAttr ==
    /\ pc = "shown"
    /\ \E item \in Items :
          last' = Called("GetAttr", <<item, 0>>, GetAttr(item, 0))
    /\ pc' = "called"
    /\ UNCHANGED <<kind, denied, stack, tree, data, value>>

\* The name column is editable: the control passes the text typed.
DoSetValue ==
    /\ pc = "shown"
    /\ \E item \in Items :
          /\ data' = SetValueData(<<"y">>, item, 0)
          /\ last' = Called("SetValue", <<<<"y">>, item, 0>>, Returned(TRUE))
    /\ pc' = "called"
    /\ UNCHANGED <<kind, denied, stack, tree, value>>

\* app.MainLoop(): the handler has returned and the control has taken its
\* answer; the loop waits for the next event.
MainLoop ==
    /\ pc = "called"
    /\ pc' = "shown"
    /\ last' = [op |-> "none"]
    /\ UNCHANGED <<kind, denied, stack, tree, data, value>>

Adapter ==
    \/ DoCompare
    \/ DoGetChildren
    \/ DoIsContainer
    \/ DoGetParent
    \/ DoGetValue
    \/ DoGetAttr
    \/ DoSetValue

Next == Build \/ Adapter \/ MainLoop

Spec == Init /\ [][Next]_vars

(***************************************************************************)
(* FileSizeRenderer.  tmp /= 1000 makes tmp a binary double, and           *)
(* f'{tmp:.2f}' prints the double's exact value rounded to two decimals,   *)
(* ties to even.  For a size below 2^31 the double is within 2^-40 of the  *)
(* exact quotient, so it is on the same side of every boundary and of      *)
(* every rounding midpoint as the quotient, unless the quotient is itself  *)
(* a midpoint.  Then size = n * 1000^(k-1) with n ending in the digit 5,   *)
(* the first k-1 divisions are exact, and the last one computes the double *)
(* nearest to n/1000.                                                      *)
(***************************************************************************)
RECURSIVE Log2Floor(_)
Log2Floor(n) == IF n < 2 THEN 0 ELSE 1 + Log2Floor(n \div 2)

RECURSIVE Pow2Mod125(_)
Pow2Mod125(e) == IF e = 0 THEN 1 ELSE (2 * Pow2Mod125(e - 1)) % 125

\* Whether the double nearest to n/1000 (n ending in 5, 1000 <= n < 10^6) prints
\* rounded up.  n/1000 = (n/125)/8.  If 125 divides n the quotient is a double
\* and the tie goes to the even hundredth.  Otherwise the 53-bit significand is
\* n * 2^e / 125 rounded, with 2^52 <= n * 2^e / 125 < 2^53, and the double is
\* above n/1000 exactly when the discarded fraction exceeds one half.
TieRoundsUp(n) ==
    IF n % 125 = 0
    THEN (n \div 10) % 2 = 1
    ELSE LET e == 52 - Log2Floor(n \div 125)
             r == ((n % 125) * Pow2Mod125(e)) % 125
         IN  2 * r > 125

\* Hundredths cut off instead of rounded.
HundredthsTruncated(size, unit) == size \div (unit \div 100)

\* The number of hundredths f'{tmp:.2f}' prints, tmp being size divided by
\* 1000 as many times as makes `unit`.
Hundredths(size, unit) ==
    LET step == unit \div 100
        q == size \div step
        r == size % step
    IN  IF 2 * r > step THEN q + 1
        ELSE IF 2 * r < step THEN q
        ELSE IF TieRoundsUp(size \div (unit \div 1000)) THEN q + 1 ELSE q

\* f'{tmp:.2f}'
Fixed2(size, unit) ==
    LET h == Hundredths(size, unit)
    IN  str(h \div 100) \o <<".", Digit((h % 100) \div 10), Digit(h % 10)>>

\* Returns '' for None, the text for a size below 1000 GB, and otherwise
\* falls off the end (returns None).
pretty_print_size(v) ==
    IF v = None THEN Some(<< >>)
    ELSE LET tmp == v[1]
         IN  IF tmp < 1000
             THEN Some(str(tmp) \o <<" ", "b", "y", "t", "e", "s">>)
             ELSE IF tmp < 1000000
             THEN Some(Fixed2(tmp, 1000) \o <<" ", "k", "B">>)
             ELSE IF tmp < 1000000000
             THEN Some(Fixed2(tmp, 1000000) \o <<" ", "M", "B">>)
             ELSE IF tmp \div 1000000000 < 1000
             THEN Some(Fixed2(tmp, 1000000000) \o <<" ", "G", "B">>)
             ELSE None

\* self.value = int(value) if value is not None else None
SetValue(v) == IF v = None THEN None ELSE Some(int(v[1]))

Boundaries == {1000, 1000000, 1000000000}

\* The sizes the control hands to the renderer: around every tier boundary,
\* midpoints of the rounding in every tier, and the largest 32-bit size.
TestSizes ==
    (0 .. Spread)
    \cup UNION {(b - Spread) .. (b + Spread) : b \in Boundaries}
    \cup {1005, 1015, 1125, 1375, 2675, 512345, 1005000, 1125000,
          1005000000, 2147483647}

\* The control passes the model's column-1 value, str(node.size), or None.
RendererSetValue ==
    /\ pc = "render"
    /\ \E v \in {None} \cup {Some(str(n)) : n \in TestSizes} :
          /\ value' = SetValue(v)
          /\ last' = Called("Renderer.SetValue", <<v>>, Returned(TRUE))
    /\ UNCHANGED <<kind, denied, stack, tree, pc, data>>

\* value = self.pretty_print_size(); self.RenderText(value, ...)
Render ==
    /\ pc = "render"
    /\ last' = Called("Render", <<value>>, Returned(pretty_print_size(value)))
    /\ UNCHANGED <<kind, denied, stack, tree, pc, data, value>>

\* A renderer of its own, before any cell was given to it.
FmtInit ==
    /\ kind = [e \in Slots |-> IF e \in {2, 7} THEN "dir" ELSE "file"]
    /\ denied = {}
    /\ stack = << >>
    /\ tree = None
    /\ pc = "render"
    /\ data = << >>
    /\ last = [op |-> "none"]
    /\ value = None

FmtNext == RendererSetValue \/ Render

FmtSpec == FmtInit /\ [][FmtNext]_vars

LiveSpec == Init /\ [][Build]_vars /\ WF_vars(Build)

(***************************************************************************)
(* What the claims are stated with.                                        *)
(***************************************************************************)
Shown == pc \in {"shown", "called"}

RECURSIVE SumSizes(_)
SumSizes(nodes) ==
    IF nodes = << >> THEN 0 ELSE Head(nodes).size + SumSizes(Tail(nodes))

RECURSIVE Aggregated(_)
Aggregated(n) ==
    n.kind = "Folder" =>
        /\ n.size = SumSizes(n.children)
        /\ \A k \in DOMAIN n.children : Aggregated(n.children[k])

RECURSIVE CountNodes(_)
RECURSIVE CountAll(_)
CountNodes(n) == 1 + (IF n.kind = "Folder" THEN CountAll(n.children) ELSE 0)
CountAll(nodes) ==
    IF nodes = << >> THEN 0 ELSE CountNodes(Head(nodes)) + CountAll(Tail(nodes))

Ids(n) == {m.id : m \in Descend(n)}

\* The entries the walk is to keep: regular files and directories that raise
\* nothing, inside directories that are kept.
RECURSIVE Included(_)
Included(e) ==
    /\ KindOf(e) \in {"file", "dir"}
    /\ e \notin denied
    /\ \/ ParentDir[e] = Root
       \/ KindOf(ParentDir[e]) = "dir" /\ Included(ParentDir[e])

RECURSIVE SetSum(_)
SetSum(S) ==
    IF S = {} THEN 0
    ELSE LET e == CHOOSE x \in S : TRUE IN StSize[e] + SetSum(S \ {e})

NameOf(e) == IF e = Root THEN RootPath ELSE Names[e]

\* The tree of the file system without the entries in `skip`, written down
\* from the directory listings: name, size and children of every node.
RECURSIVE ExpectNode(_, _)
RECURSIVE ExpectList(_, _)
ExpectNode(e, skip) ==
    IF KindOf(e) = "file"
    THEN [kind |-> "File", path |-> NameOf(e), size |-> StSize[e]]
    ELSE LET ch == ExpectList(Listing(e), skip)
         IN  [kind |-> "Folder", path |-> NameOf(e), size |-> SumSizes(ch),
              children |-> ch]
ExpectList(l, skip) ==
    IF l = << >> THEN << >>
    ELSE LET e == Head(l)
             rest == ExpectList(Tail(l), skip)
         IN  IF e \in skip \/ KindOf(e) \notin {"file", "dir"}
             THEN rest
             ELSE <<ExpectNode(e, skip)>> \o rest

\* A node without its identity and parent reference.
RECURSIVE Shape(_)
RECURSIVE ShapeList(_)
Shape(n) ==
    IF n.kind = "Folder"
    THEN [kind |-> "Folder", path |-> n.path, size |-> n.size,
          children |-> ShapeList(n.children)]
    ELSE [kind |-> "File", path |-> n.path, size |-> n.size]
ShapeList(nodes) ==
    IF nodes = << >> THEN << >>
    ELSE <<Shape(Head(nodes))>> \o ShapeList(Tail(nodes))

\* The orders of a sibling list that agree with Compare on every pair.
SortedOrders(l, column, ascending) ==
    {p \in Permutations(DOMAIN l) :
        \A i, j \in DOMAIN l :
            i < j => Compare(ObjectToItem(l[p[i]]), ObjectToItem(l[p[j]]),
                             column, ascending) = -1}

(***************************************************************************)
(* C1.  Aggregation invariant: every Folder's size is the sum of the sizes *)
(* of the nodes in its children list, at every depth, in every call still  *)
(* running and in the tree returned; the nodes of the tree are exactly the *)
(* entries that were not skipped, and the root's size is the sum of the    *)
(* sizes of the regular files among them.                                  *)
(***************************************************************************)
C1_Aggregation ==
    /\ \A k \in DOMAIN stack :
          /\ stack[k].total = SumSizes(stack[k].files)
          /\ \A j \in DOMAIN stack[k].files : Aggregated(stack[k].files[j])
    /\ tree # None =>
          /\ Aggregated(tree[1])
          /\ Ids(tree[1]) = {Root} \cup {e \in Slots : Included(e)}
          /\ tree[1].size =
                SetSum({e \in Slots : Included(e) /\ KindOf(e) = "file"})

\* A finished walk that skipped an entry and kept a non-empty nested Folder.
C1_Witness ==
    /\ tree # None
    /\ denied # {}
    /\ \E n \in Descend(tree[1]) :
          n.kind = "Folder" /\ n.id # Root /\ Len(n.children) >= 2 /\ n.size > 0

(***************************************************************************)
(* C2.  Parent linkage: the root's parent is absent and every other node's *)
(* parent is the Folder whose children list holds it; GetParent of a       *)
(* nested node returns that Folder.                                        *)
(***************************************************************************)
C2_ParentLinkage ==
    /\ tree # None =>
          /\ tree[1].parent = None
          /\ \A n \in Descend(tree[1]) :
                n.kind = "Folder" =>
                   \A k \in DOMAIN n.children : n.children[k].parent = Some(n.id)
    /\ (last.op = "GetParent" /\ last.args[1] \notin {None, Some(Root)}) =>
          last.out.ret = Some(ParentDir[last.args[1][1]])

(***************************************************************************)
(* C3.  Unreadable directory: a directory whose enumeration raises         *)
(* PermissionError yields a Folder with no children and size 0, which      *)
(* still appears in its parent's children; for the root no error reaches   *)
(* the caller.                                                             *)
(***************************************************************************)
C3_UnreadableDirectory ==
    /\ pc # "raised"
    /\ tree # None =>
          \A d \in denied \cap Slots :
             (/\ KindOf(d) = "dir"
              /\ \/ ParentDir[d] = Root
                 \/ Included(ParentDir[d]))
             => \E n \in Descend(tree[1]) :
                   /\ n.id = d
                   /\ n.kind = "Folder"
                   /\ n.size = 0
                   /\ n.children = << >>

(***************************************************************************)
(* C4.  Skip-on-denial: when exactly one entry raises PermissionError      *)
(* while its type or size is determined, the tree built is the tree of the *)
(* file system without that entry: every other sibling with its full       *)
(* subtree, sizes excluding only the failing entry; and get_file_tree does *)
(* not raise.                                                              *)
(***************************************************************************)
C4_SkipOnDenial ==
    \A e \in Slots :
       (denied = {e} /\ KindOf(e) # "dir") =>
          /\ pc # "raised"
          /\ tree # None => Shape(tree[1]) = ExpectNode(Root, {e})

\* The first entry of the root raises; the three entries after it are kept.
C4_Witness ==
    /\ tree # None
    /\ denied = {1}
    /\ kind[3] = "file"
    /\ Len(tree[1].children) = 3
    /\ tree[1].children[1].kind = "Folder"
    /\ Len(tree[1].children[1].children) = 3

(***************************************************************************)
(* C5.  Two-level comparator: Compare orders by name when the column is 0  *)
(* or the sizes are equal, otherwise by size; the result for ascending is  *)
(* the negation of the result for descending; the order of a sibling list  *)
(* that agrees with Compare on column 1 ascending is by increasing size,   *)
(* equal sizes by increasing name.                                         *)
(***************************************************************************)
C5_TwoLevelComparator ==
    /\ last.op = "Compare" =>
          LET a == ItemToObject(last.args[1])
              b == ItemToObject(last.args[2])
              column == last.args[3]
              ascending == last.args[4]
              greater == IF column = 0 \/ a.size = b.size
                         THEN StrGreater(a.path, b.path)
                         ELSE a.size > b.size
          IN  /\ last.out.ret = (IF greater THEN 1 ELSE -1) * (IF ascending THEN 1 ELSE -1)
              /\ last.out.ret =
                    -Compare(last.args[1], last.args[2], column, ~ascending)
    /\ pc = "shown" =>
          \A l \in SiblingLists :
             /\ SortedOrders(l, 1, TRUE) # {}
             /\ \A p \in SortedOrders(l, 1, TRUE) : \A i, j \in DOMAIN l :
                   i < j =>
                      \/ l[p[i]].size < l[p[j]].size
                      \/ /\ l[p[i]].size = l[p[j]].size
                         /\ StrGreater(l[p[j]].path, l[p[i]].path)

\* Column 1 ascending: "b" (20 bytes) sorts after "c" (10 bytes) against the
\* names, while the equal-sized "a" and "b" of sub have the one order a, b.
C5_Witness ==
    /\ last.op = "Compare"
    /\ last.args = <<Some(4), Some(1), 1, TRUE>>
    /\ last.out.ret = 1
    /\ KindOf(4) = "file"
    /\ \E n \in Objects :
          /\ n.kind = "Folder"
          /\ Len(n.children) = 2
          /\ n.children[1].size = n.children[2].size
          /\ SortedOrders(n.children, 1, TRUE) # {}
          /\ \A p \in SortedOrders(n.children, 1, TRUE) :
                /\ n.children[p[1]].path = <<"a">>
                /\ n.children[p[2]].path = <<"b">>

\* The suffix a text ends with.
EndsWith(text, suffix) ==
    /\ Len(text) >= Len(suffix)
    /\ SubSeq(text, Len(text) - Len(suffix) + 1, Len(text)) = suffix

\* The hundredths a text "<digits>.<d><d> <unit>" shows.
ShownHundredths(text) ==
    LET dot == CHOOSE k \in DOMAIN text : text[k] = "."
    IN  100 * int(SubSeq(text, 1, dot - 1)) + int(SubSeq(text, dot + 1, dot + 2))

\* The tier a size is printed in: 1 bytes, 1000 kB, 1000^2 MB, 1000^3 GB.
TierOf(v) ==
    IF v < 1000 THEN 1
    ELSE IF v < 1000000 THEN 1000
    ELSE IF v < 1000000000 THEN 1000000
    ELSE 1000000000

UnitText(unit) ==
    IF unit = 1 THEN <<" ", "b", "y", "t", "e", "s">>
    ELSE IF unit = 1000 THEN <<" ", "k", "B">>
    ELSE IF unit = 1000000 THEN <<" ", "M", "B">>
    ELSE <<" ", "G", "B">>

(***************************************************************************)
(* C6, as stated.  Formatter boundaries: 999 prints as "999 bytes", 1000   *)
(* as "1.00 kB", 999999 as "999.99 kB", 1000^2 as "1.00 MB", 1000^3 as     *)
(* "1.00 GB"; every size is printed with a magnitude below 1000.           *)
(***************************************************************************)
C6_FormatterBoundaries ==
    (last.op = "Render" /\ last.args[1] # None) =>
       LET v == last.args[1][1]
           text == last.out.ret[1]
       IN  /\ v = 999 => text = <<"9", "9", "9", " ", "b", "y", "t", "e", "s">>
           /\ v = 1000 => text = <<"1", ".", "0", "0", " ", "k", "B">>
           /\ v = 999999 => text = <<"9", "9", "9", ".", "9", "9", " ", "k", "B">>
           /\ v = 1000000 => text = <<"1", ".", "0", "0", " ", "M", "B">>
           /\ v = 1000000000 => text = <<"1", ".", "0", "0", " ", "G", "B">>
           /\ \E k \in 2 .. 4 : text[k] \in {".", " "}

(***************************************************************************)
(* C6, amended.  999 prints as "999 bytes", 1000 as "1.00 kB", 999999 as   *)
(* "1000.00 kB", 1000^2 as "1.00 MB", 1000^3 as "1.00 GB".  A size below   *)
(* a tier boundary is printed in the lower tier's unit; from the kB tier   *)
(* on the magnitude is the size divided by the unit, rounded to the        *)
(* nearest hundredth and printed with exactly two decimals.  It is below   *)
(* 1000 unless the size is within 0.005 units of the next boundary         *)
(* (at least 999995 units/1000), where it is printed as "1000.00".         *)
(***************************************************************************)
C6_FormatterRounded ==
    (last.op = "Render" /\ last.args[1] # None) =>
       LET v == last.args[1][1]
           text == last.out.ret[1]
           unit == TierOf(v)
       IN  /\ v = 999 => text = <<"9", "9", "9", " ", "b", "y", "t", "e", "s">>
           /\ v = 1000 => text = <<"1", ".", "0", "0", " ", "k", "B">>
           /\ v = 999999 =>
                 text = <<"1", "0", "0", "0", ".", "0", "0", " ", "k", "B">>
           /\ v = 1000000 => text = <<"1", ".", "0", "0", " ", "M", "B">>
           /\ v = 1000000000 => text = <<"1", ".", "0", "0", " ", "G", "B">>
           /\ EndsWith(text, UnitText(unit))
           /\ unit = 1 => text = str(v) \o UnitText(unit)
           /\ unit > 1 =>
                 LET h == ShownHundredths(text)
                     step == unit \div 100
                     q == v \div step
                     r == v % step
                 IN  /\ text = str(h \div 100)
                                \o <<".", Digit((h % 100) \div 10), Digit(h % 10)>>
                                \o UnitText(unit)
                     /\ \/ h = q /\ 2 * r <= step
                        \/ h = q + 1 /\ 2 * r >= step
                     /\ h <= 100000
                     /\ h = 100000 <=> v \div (unit \div 1000) >= 999995

\* 999999 has been rendered, as "1000.00 kB".
C6_Witness ==
    /\ last.op = "Render"
    /\ last.args[1] = Some(999999)
    /\ last.out.ret = Some(<<"1", "0", "0", "0", ".", "0", "0", " ", "k", "B">>)

(***************************************************************************)
(* C7.  children_of: GetChildren returns the roots for the null item, a    *)
(* Folder's stored children in stored order, and for a File the empty      *)
(* sequence with count 0, without failing.                                 *)
(***************************************************************************)
C7_ChildrenOf ==
    last.op = "GetChildren" =>
       LET parent == last.args[1]
       IN  /\ last.out.exc = ""
           /\ IF parent = NullDataViewItem
              THEN last.out.children = ItemsOf(data)
              ELSE IF ItemToObject(parent).kind = "Folder"
              THEN /\ last.out.children = ItemsOf(ItemToObject(parent).children)
                   /\ last.out.ret = Len(ItemToObject(parent).children)
              ELSE last.out.ret = 0 /\ last.out.children = << >>

(***************************************************************************)
(* C8.  Read-only after construction: when the view model exists the walk  *)
(* is over and the model holds the tree it returned; from then on no step  *)
(* (Compare, GetChildren, IsContainer, GetParent, GetValue, GetAttr,       *)
(* SetValue) changes a node's name, size, parent or children.              *)
(***************************************************************************)
C8_ReadOnly ==
    /\ [](Shown => (stack = << >> /\ tree # None /\ data = tree))
    /\ [][Shown => (data' = data /\ tree' = tree)]_vars

\* SetValue has just been called with a new name for the nested file x.
C8_Witness ==
    /\ pc = "called"
    /\ last.op = "SetValue"
    /\ last.args[2] = Some(8)
    /\ KindOf(8) = "file"

(***************************************************************************)
(* C9.  Symlinks are inert and the walk terminates: no call is ever made   *)
(* for, and no node ever created for, an entry that is not a regular file  *)
(* or a directory; no directory is being listed twice at once and no entry *)
(* has two nodes; and the walk ends, with the tree or with the error.      *)
(***************************************************************************)
C9_SymlinksInert ==
    /\ [](/\ \A k \in DOMAIN stack :
                /\ KindOf(stack[k].entry) = "dir"
                /\ \A j \in DOMAIN stack : stack[j].root = stack[k].root => j = k
                /\ \A j \in DOMAIN stack[k].files :
                      \A id \in Ids(stack[k].files[j]) : KindOf(id) \in {"file", "dir"}
          /\ tree # None =>
                /\ \A id \in Ids(tree[1]) : KindOf(id) \in {"file", "dir"}
                /\ CountNodes(tree[1]) = Cardinality(Ids(tree[1])))
    /\ <>(pc \in {"shown", "raised"})

\* The walk is over in a file system where sub/b links to sub and
\* sub/deep/x links to the root.
C9_Witness ==
    /\ pc = "shown"
    /\ kind[6] = "link"
    /\ kind[8] = "link"
    /\ denied = {}
    /\ CountNodes(tree[1]) = 7

(***************************************************************************)
(* C10.  Compare is a consistent ordering: exchanging the two items        *)
(* negates the result, also for a node compared with itself.               *)
(***************************************************************************)
C10_Antisymmetric ==
    last.op = "Compare" =>
       last.out.ret =
          -Compare(last.args[2], last.args[1], last.args[3], last.args[4])

====
